---------------------------- MODULE Spec2Model ----------------------------
(***************************************************************************)
(* Hand-gesture controller of the christmas-tree application.              *)
(*                                                                         *)
(* The model follows the first definition of GestureController             *)
(* (src/components/GestureController.tsx, lines 13-292) and the App        *)
(* component that owns the mode and the pointer (src/unnamed/part_000,     *)
(* lines 47-108).  One action stands for one callback of the program: an   *)
(* animation-frame callback, the continuation of an await, a timer, a DOM  *)
(* event, a React effect or its cleanup.                                   *)
(***************************************************************************)
EXTENDS Integers, Sequences, FiniteSets, TLC

(***************************************************************************)
(* Bounds of the model.                                                    *)
(***************************************************************************)
\* openFrames and closedFrames are unbounded in the code; a cycle that would
\* push a counter beyond MaxFrames is not taken.
MaxFrames == 6
\* Number of detection cycles that may complete between setMode(...) in App
\* and the effect that copies the new mode into modeRef (React renders and
\* flushes the effect from a task queued at the setMode call, the loop needs
\* a 60 ms timer and an animation frame for every further cycle).
MaxStaleCycles == 1
\* Landmark coordinates are k / MaxCoord for k in 0..MaxCoord.
MaxCoord == 1
\* Number of landmarks of a hand beyond the highest index the code reads
\* (the detector yields 21 points, the code reads no index above 12).
ExtraLandmarks == 8

(***************************************************************************)
(* Constants of the program.                                               *)
(***************************************************************************)
CONFIDENCE_THRESHOLD == 5
HAVE_CURRENT_DATA == 2
INDEX_TIP == 8
INDEX_PIP == 6
MIDDLE_TIP == 12
MIDDLE_PIP == 10

FORMED == "FORMED"
CHAOS == "CHAOS"
TreeMode == {FORMED, CHAOS}

StatusInitializing == "Initializing..."
StatusNotSupported == "Webcam not supported by browser"
StatusReady == "Ready - Show your hand"
StatusAllowCamera == "Please allow camera access"
StatusWebcamError == "Webcam error"
StatusMediaPipeError == "Hand detection unavailable due to MediaPipe error"
StatusChaos == "CHAOS MODE"
StatusFormed == "FORMED MODE"
StatusNoHand == "No hand detected - Show your hand"

(***************************************************************************)
(* Exact fractions num/den, reduced, for normalized coordinates.           *)
(***************************************************************************)
RECURSIVE GCD(_, _)
GCD(a, b) == IF b = 0 THEN a ELSE GCD(b, a % b)

Frac(num, den) == LET g == GCD(num, den) IN <<num \div g, den \div g>>

(***************************************************************************)
(* Landmark sets.  A hand is a sequence of points [x, y] in units of       *)
(* 1/MaxCoord; landmarks[i] of the code is hand[i + 1].                    *)
(***************************************************************************)
Coords == 0..MaxCoord
NumLandmarks == MIDDLE_TIP + 1 + ExtraLandmarks

Landmark(hand, i) == hand[i + 1]

MkHand(tipI, pipI, tipM, pipM, rest) ==
    [k \in 1..NumLandmarks |->
        [x |-> rest,
         y |-> CASE k - 1 = INDEX_TIP -> tipI
                 [] k - 1 = INDEX_PIP -> pipI
                 [] k - 1 = MIDDLE_TIP -> tipM
                 [] k - 1 = MIDDLE_PIP -> pipM
                 [] OTHER -> rest]]

\* The hands the detector returns in the model: the tips of the index and
\* the middle finger vary, both PIP joints lie at the lower edge.
Hands == {MkHand(a, MaxCoord, c, MaxCoord, 0) : a \in Coords, c \in Coords}

RECURSIVE SumX(_, _)
SumX(hand, n) == IF n = 0 THEN 0 ELSE SumX(hand, n - 1) + hand[n].x
RECURSIVE SumY(_, _)
SumY(hand, n) == IF n = 0 THEN 0 ELSE SumY(hand, n - 1) + hand[n].y

\* centerX, centerY of lines 79-86: the sum of all landmarks by their number.
CenterXSkipLast(hand) == Frac(SumX(hand, Len(hand) - 1), Len(hand) * MaxCoord)
CenterX(hand) == Frac(SumX(hand, Len(hand)), Len(hand) * MaxCoord)
CenterY(hand) == Frac(SumY(hand, Len(hand)), Len(hand) * MaxCoord)

\* Lines 98-99: a finger is open when its tip lies strictly above its PIP.
IndexOpenOrLevel(hand) == Landmark(hand, INDEX_TIP).y <= Landmark(hand, INDEX_PIP).y
IndexOpen(hand) == Landmark(hand, INDEX_TIP).y < Landmark(hand, INDEX_PIP).y
MiddleOpen(hand) == Landmark(hand, MIDDLE_TIP).y < Landmark(hand, MIDDLE_PIP).y

\* Line 101: the condition of the OPEN branch.
HandOpen(hand) == IndexOpen(hand) /\ MiddleOpen(hand)

\* results.landmarks of line 67: no hand, or one hand (numHands: 1, line 217).
NoHands == <<>>

\* Lines 68-134: which branch a result takes.  The raw signal is OPEN in the
\* branch of line 101, CLOSED in its else branch, UNDETERMINED in the branch
\* of line 124.
RawSignal(landmarks) ==
    IF Len(landmarks) > 0
    THEN IF HandOpen(landmarks[1]) THEN "OPEN" ELSE "CLOSED"
    ELSE "UNDETERMINED"

\* Hands for the classifier alone: the four landmarks the code reads take
\* every y and a common x, the other landmarks a common y and a common x.
MkHandXY(tipI, pipI, tipM, pipM, restY, testedX, restX) ==
    [k \in 1..NumLandmarks |->
        IF k - 1 \in {INDEX_TIP, INDEX_PIP, MIDDLE_TIP, MIDDLE_PIP}
        THEN [x |-> testedX,
              y |-> CASE k - 1 = INDEX_TIP -> tipI
                      [] k - 1 = INDEX_PIP -> pipI
                      [] k - 1 = MIDDLE_TIP -> tipM
                      [] OTHER -> pipM]
        ELSE [x |-> restX, y |-> restY]]

WideHands ==
    {MkHandXY(a, b, c, d, ry, tx, rx) :
        a \in Coords, b \in Coords, c \in Coords, d \in Coords,
        ry \in Coords, tx \in Coords, rx \in Coords}

\* The results the detector can return for a frame.
Frames == {NoHands} \cup {<<hand>> : hand \in WideHands}

\* Lines 89, 127: the values handed to onHandPosition.
HandPointer(hand) == [x |-> CenterX(hand), y |-> CenterY(hand), detected |-> TRUE]
NoHandPointerOrigin == [x |-> Frac(0, 1), y |-> Frac(0, 1), detected |-> FALSE]
NoHandPointer == [x |-> Frac(1, 2), y |-> Frac(1, 2), detected |-> FALSE]

\* The classification of every hand of the model, computed once.
Classified == [hand \in Hands |-> [open |-> HandOpen(hand), pointer |-> HandPointer(hand)]]

\* Lines 106, 117: the run counter strictly exceeds the threshold.
ExceedsThresholdGe(n) == n >= CONFIDENCE_THRESHOLD
ExceedsThreshold(n) == n > CONFIDENCE_THRESHOLD

(***************************************************************************)
(* State.                                                                  *)
(***************************************************************************)
VARIABLES
    \* App (src/unnamed/part_000)
    mode,                 \* useState(TreeMode.FORMED), line 48
    handPosition,         \* useState({x: 0.5, y: 0.5, detected: false}), line 49
    \* GestureController
    modeRef,              \* useRef(currentMode), line 34
    openFrames,           \* line 28
    closedFrames,         \* line 29
    gestureStatus,        \* line 20
    handDetected,         \* line 21
    handLandmarkerRef,    \* line 24: 0 is null, i > 0 the detector of setup i
    animationFrameIdRef,  \* line 25: "null", or the id of a callback that is
                          \* still "pending", or of one that ran or was cancelled ("stale")
    videoMounted,         \* videoRef.current and canvasRef.current are not null
    srcObject,            \* videoRef.current.srcObject: 0 is null, i > 0 the stream of setup i
    readyState,           \* readyState of the video element
    listeners,            \* number of registered once-listeners for "loadeddata"
    gumSupported,         \* navigator.mediaDevices?.getUserMedia exists
    \* pending callbacks and suspended calls
    chain,                \* position of every call of setup() and its startWebcam()
    rafOther,             \* queued animation-frame callbacks other than the one of animationFrameIdRef
    timeouts,             \* pending 60 ms timers of line 141
    inflight,             \* calls of predictWebcam suspended at the await of line 67
    \* resources
    created,              \* detectors created
    closed,               \* detectors closed
    acquired,             \* streams acquired by getUserMedia
    stopped,              \* streams whose tracks were stopped
    \* history of the loop, written by the cycle that completed last
    lastOutcome,          \* "none", "OPEN", "CLOSED", "NOHAND" or "FAIL"
    emitted,              \* the argument of onModeChange in that cycle, or "none"
    published,            \* number of calls of onHandPosition in that cycle
    runKind,              \* signal of the current run of decisive signals, or "none"
    runLen,               \* length of that run
    runEvents,            \* number of mode changes emitted in that run
    runStartMode,         \* value of mode when that run started
    lastEvent,            \* the argument of the latest call of onModeChange, or "none"
    staleCycles,          \* cycles completed since mode and modeRef differ
    ranAfterTeardown,     \* predictWebcam was called after the unmount cleanup
    tornDownIn,           \* what the loop had pending when that cleanup ran
    teardownLog,          \* what every run of the cleanup released, in order
    \* the classifier on its own
    frame,                \* a result of detectForVideo
    signal                \* the raw signal of that result, "none" before it is classified

appVars == <<mode, handPosition>>
debounceVars == <<modeRef, openFrames, closedFrames, gestureStatus, handDetected>>
deviceVars == <<handLandmarkerRef, videoMounted, srcObject, readyState, listeners,
                gumSupported, created, closed, acquired, stopped>>
schedVars == <<animationFrameIdRef, rafOther, timeouts, inflight>>
historyVars == <<lastOutcome, emitted, published, runKind, runLen, runEvents,
                 runStartMode, lastEvent>>
classifierVars == <<frame, signal>>
vars == <<appVars, debounceVars, deviceVars, schedVars, historyVars, chain,
          staleCycles, ranAfterTeardown, tornDownIn, teardownLog, classifierVars>>

\* The runs of the effect body: the mount, and the second run of React's
\* development double invocation (see EffectRerun).
SetupIds == 1..2
NumSetups == Cardinality(SetupIds)
\* A call of setup() waits at one of its awaits, or it has returned: "done",
\* or through the catch block of setup ("createFailed") or after a failure
\* to get the camera going in startWebcam ("cameraFailed").
Returned == {"done", "createFailed", "cameraFailed"}
ChainPcs == {"idle", "fileset", "create", "gum", "play"} \cup Returned

InitProgram ==
    /\ mode = FORMED
    /\ handPosition = NoHandPointer
    /\ modeRef = FORMED
    /\ openFrames = 0
    /\ closedFrames = 0
    /\ gestureStatus = StatusInitializing
    /\ handDetected = FALSE
    /\ handLandmarkerRef = 0
    /\ animationFrameIdRef = "null"
    /\ videoMounted = TRUE
    /\ srcObject = 0
    /\ readyState = 0
    /\ listeners = 0
    /\ gumSupported \in BOOLEAN
    \* the mount effect has called setup(), which waits for the fileset
    /\ chain = [i \in SetupIds |-> IF i = 1 THEN "fileset" ELSE "idle"]
    /\ rafOther = 0
    /\ timeouts = 0
    /\ inflight = 0
    /\ created = {}
    /\ closed = {}
    /\ acquired = {}
    /\ stopped = {}
    /\ lastOutcome = "none"
    /\ emitted = "none"
    /\ published = 0
    /\ runKind = "none"
    /\ runLen = 0
    /\ runEvents = 0
    /\ runStartMode = FORMED
    /\ lastEvent = "none"
    /\ staleCycles = 0
    /\ ranAfterTeardown = FALSE
    /\ tornDownIn = {}
    /\ teardownLog = <<>>

Init ==
    /\ InitProgram
    /\ frame = NoHands
    /\ signal = "none"

(***************************************************************************)
(* The scheduler: requestAnimationFrame, the await of detectForVideo and   *)
(* the 60 ms timer.                                                        *)
(***************************************************************************)
Sched == [idRef |-> animationFrameIdRef, rafOther |-> rafOther, inflight |-> inflight]

SetSched(s) ==
    /\ animationFrameIdRef' = s.idRef
    /\ rafOther' = s.rafOther
    /\ inflight' = s.inflight

\* animationFrameIdRef.current = requestAnimationFrame(predictWebcam): the
\* callback whose id the ref held stays queued, the ref names the new one.
RequestAnimationFrame(s) ==
    [s EXCEPT !.idRef = "pending",
              !.rafOther = @ + IF s.idRef = "pending" THEN 1 ELSE 0]

\* Lines 44-59: the prerequisites of a detection pass.
GateNoReadyState(mounted, landmarker, ready) ==
    mounted /\ landmarker # 0
Gate(mounted, landmarker, ready) ==
    mounted /\ landmarker # 0 /\ ready >= HAVE_CURRENT_DATA

\* Lines 41-67: predictWebcam up to its first suspension.  With the gate
\* closed it asks for the next frame and returns, with the gate open it
\* calls detectForVideo and waits for the result.
PredictWebcamEnter(s, gate) ==
    IF gate THEN [s EXCEPT !.inflight = @ + 1] ELSE RequestAnimationFrame(s)

RECURSIVE PredictWebcamEnterTimes(_, _, _)
PredictWebcamEnterTimes(n, s, gate) ==
    IF n = 0 THEN s
    ELSE PredictWebcamEnterTimes(n - 1, PredictWebcamEnter(s, gate), gate)

\* A queued animation-frame callback runs predictWebcam.
AnimationFrame ==
    /\ \E which \in {"ref", "other"} :
          LET s0 == IF which = "ref"
                    THEN [Sched EXCEPT !.idRef = "stale"]
                    ELSE [Sched EXCEPT !.rafOther = @ - 1]
          IN /\ IF which = "ref"
                THEN animationFrameIdRef = "pending"
                ELSE rafOther > 0
             /\ SetSched(PredictWebcamEnter(s0,
                    Gate(videoMounted, handLandmarkerRef, readyState)))
    /\ ranAfterTeardown' = (ranAfterTeardown \/ ~videoMounted)
    /\ UNCHANGED <<tornDownIn, teardownLog, classifierVars>>
    /\ UNCHANGED <<appVars, debounceVars, deviceVars, historyVars, chain,
                   staleCycles, timeouts>>

\* Lines 141-143: the timer requests the next animation frame.
TimeoutFire ==
    /\ timeouts > 0
    /\ timeouts' = timeouts - 1
    /\ SetSched(RequestAnimationFrame(Sched))
    /\ UNCHANGED <<appVars, debounceVars, deviceVars, historyVars, chain,
                   staleCycles, ranAfterTeardown, tornDownIn, teardownLog, classifierVars>>

(***************************************************************************)
(* The debounce rule: what one completed detection does to the counters    *)
(* and which mode change it emits.                                         *)
(***************************************************************************)
\* Lines 101-111.
OpenCycleKeepCount(of, cf, m) ==
    LET n == of + 1
    IN IF ExceedsThreshold(n) /\ m = FORMED
       THEN [openFrames |-> n, closedFrames |-> 0, emit |-> CHAOS]
       ELSE [openFrames |-> n, closedFrames |-> 0, emit |-> "none"]
OpenCycleAnyMode(of, cf, m) ==
    LET n == of + 1
    IN IF ExceedsThreshold(n)
       THEN [openFrames |-> 0, closedFrames |-> 0, emit |-> CHAOS]
       ELSE [openFrames |-> n, closedFrames |-> 0, emit |-> "none"]
OpenCycleKeepClosed(of, cf, m) ==
    LET n == of + 1
    IN IF ExceedsThreshold(n) /\ m = FORMED
       THEN [openFrames |-> 0, closedFrames |-> cf, emit |-> CHAOS]
       ELSE [openFrames |-> n, closedFrames |-> cf, emit |-> "none"]
OpenCycle(of, cf, m) ==
    LET n == of + 1
    IN IF ExceedsThreshold(n) /\ m = FORMED
       THEN [openFrames |-> 0, closedFrames |-> 0, emit |-> CHAOS]
       ELSE [openFrames |-> n, closedFrames |-> 0, emit |-> "none"]

\* Lines 112-123.
ClosedCycleKeepOpen(of, cf, m) ==
    LET n == cf + 1
    IN IF ExceedsThreshold(n) /\ m = CHAOS
       THEN [openFrames |-> of, closedFrames |-> 0, emit |-> FORMED]
       ELSE [openFrames |-> of, closedFrames |-> n, emit |-> "none"]
ClosedCycleAnyMode(of, cf, m) ==
    LET n == cf + 1
    IN IF ExceedsThreshold(n)
       THEN [openFrames |-> 0, closedFrames |-> 0, emit |-> FORMED]
       ELSE [openFrames |-> 0, closedFrames |-> n, emit |-> "none"]
ClosedCycle(of, cf, m) ==
    LET n == cf + 1
    IN IF ExceedsThreshold(n) /\ m = CHAOS
       THEN [openFrames |-> 0, closedFrames |-> 0, emit |-> FORMED]
       ELSE [openFrames |-> 0, closedFrames |-> n, emit |-> "none"]

\* Lines 124-134.
NoHandCycleEmitsFormed(of, cf, m) ==
    [openFrames |-> 0, closedFrames |-> 0, emit |-> IF m = CHAOS THEN FORMED ELSE "none"]
NoHandCycleAsTable(of, cf, m) ==
    IF m = FORMED
    THEN [openFrames |-> 0, closedFrames |-> cf + 1, emit |-> "none"]
    ELSE [openFrames |-> of + 1, closedFrames |-> 0, emit |-> "none"]
NoHandCycle(of, cf, m) ==
    [openFrames |-> 0, closedFrames |-> 0, emit |-> "none"]

\* Lines 135-138.
FailedCycleReset(of, cf, m) ==
    [openFrames |-> 0, closedFrames |-> 0, emit |-> "none"]
FailedCycle(of, cf, m) ==
    [openFrames |-> of, closedFrames |-> cf, emit |-> "none"]

\* onModeChange is App's setMode (part_000, line 105).
OnModeChange(emit) == mode' = IF emit = "none" THEN mode ELSE emit

\* Lines 108, 119: the status names the mode that was switched to.
StatusAfter(emit) ==
    IF emit = CHAOS THEN StatusChaos
    ELSE IF emit = FORMED THEN StatusFormed
    ELSE gestureStatus

\* The effect of lines 35-37 has not run since the mode changed.
Stale == modeRef # mode
StaleAllowed == ~Stale \/ staleCycles < MaxStaleCycles

\* The history variables after a cycle with outcome sig that emitted emit.
Record(sig, emit, pubs) ==
    /\ lastOutcome' = sig
    /\ emitted' = emit
    /\ published' = pubs
    /\ lastEvent' = IF emit = "none" THEN lastEvent ELSE emit
    /\ IF sig \in {"OPEN", "CLOSED"}
       THEN IF runKind = sig
            THEN /\ runLen' = runLen + 1
                 /\ runEvents' = runEvents + IF emit = "none" THEN 0 ELSE 1
                 /\ UNCHANGED <<runKind, runStartMode>>
            ELSE /\ runKind' = sig
                 /\ runLen' = 1
                 /\ runEvents' = IF emit = "none" THEN 0 ELSE 1
                 /\ runStartMode' = mode
       ELSE IF sig = "NOHAND"
            THEN /\ runKind' = "none"
                 /\ runLen' = 0
                 /\ runEvents' = 0
                 /\ UNCHANGED runStartMode
            ELSE UNCHANGED <<runKind, runLen, runEvents, runStartMode>>

\* Lines 140-143, reached on every path through the try block.
EndOfCycle ==
    /\ inflight' = inflight - 1
    /\ timeouts' = timeouts + 1
    /\ staleCycles' = IF Stale THEN staleCycles + 1 ELSE 0
    /\ UNCHANGED <<animationFrameIdRef, rafOther, deviceVars, chain,
                   ranAfterTeardown, tornDownIn, teardownLog, classifierVars>>

\* Lines 69-123: detectForVideo returned the landmarks of a hand.
DetectHand ==
    /\ inflight > 0
    /\ StaleAllowed
    /\ \E hand \in Hands :
          LET c == Classified[hand]
              r == IF c.open
                   THEN OpenCycle(openFrames, closedFrames, modeRef)
                   ELSE ClosedCycle(openFrames, closedFrames, modeRef)
          IN /\ r.openFrames <= MaxFrames
             /\ r.closedFrames <= MaxFrames
             /\ handDetected' = TRUE
             /\ handPosition' = c.pointer
             /\ openFrames' = r.openFrames
             /\ closedFrames' = r.closedFrames
             /\ OnModeChange(r.emit)
             /\ gestureStatus' = StatusAfter(r.emit)
             /\ Record(IF c.open THEN "OPEN" ELSE "CLOSED", r.emit, 1)
    /\ UNCHANGED modeRef
    /\ EndOfCycle

\* Lines 124-134: detectForVideo returned no hand.
DetectNoHand ==
    /\ inflight > 0
    /\ StaleAllowed
    /\ LET r == NoHandCycle(openFrames, closedFrames, modeRef)
       IN /\ r.openFrames <= MaxFrames
          /\ r.closedFrames <= MaxFrames
          /\ handDetected' = FALSE
          /\ handPosition' = NoHandPointer
          /\ gestureStatus' = StatusNoHand
          /\ openFrames' = r.openFrames
          /\ closedFrames' = r.closedFrames
          /\ OnModeChange(r.emit)
          /\ Record("NOHAND", r.emit, 1)
    /\ UNCHANGED modeRef
    /\ EndOfCycle

\* Lines 135-138: detectForVideo threw; the catch block logs and clears the canvas.
DetectThrow ==
    /\ inflight > 0
    /\ StaleAllowed
    /\ LET r == FailedCycle(openFrames, closedFrames, modeRef)
       IN /\ openFrames' = r.openFrames
          /\ closedFrames' = r.closedFrames
          /\ OnModeChange(r.emit)
          /\ Record("FAIL", r.emit, 0)
    /\ UNCHANGED <<handPosition, handDetected, gestureStatus, modeRef>>
    /\ EndOfCycle

\* Lines 35-37: after the render that follows setMode, the effect copies
\* currentMode into modeRef.
SyncModeRef ==
    /\ Stale
    /\ modeRef' = mode
    /\ staleCycles' = 0
    /\ UNCHANGED <<appVars, openFrames, closedFrames, gestureStatus, handDetected,
                   deviceVars, schedVars, historyVars, chain, ranAfterTeardown, tornDownIn, teardownLog, classifierVars>>

(***************************************************************************)
(* Setup: the effect of lines 199-232 and startWebcam, lines 150-195.      *)
(***************************************************************************)
SetChain(i, pc) == chain' = [chain EXCEPT ![i] = pc]

\* Line 206: the fileset resolved, createFromOptions is called.
FilesetResolved(i) ==
    /\ chain[i] = "fileset"
    /\ SetChain(i, "create")
    /\ UNCHANGED <<appVars, debounceVars, deviceVars, schedVars, historyVars,
                   staleCycles, ranAfterTeardown, tornDownIn, teardownLog, classifierVars>>

\* Lines 222-226: either await of setup rejected.
SetupFailed(i) ==
    /\ chain[i] \in {"fileset", "create"}
    /\ gestureStatus' = StatusMediaPipeError
    /\ handLandmarkerRef' = 0
    /\ SetChain(i, "createFailed")
    /\ UNCHANGED <<appVars, modeRef, openFrames, closedFrames, handDetected,
                   videoMounted, srcObject, readyState, listeners, gumSupported,
                   created, closed, acquired, stopped, schedVars, historyVars,
                   staleCycles, ranAfterTeardown, tornDownIn, teardownLog, classifierVars>>

\* Lines 210-221 and 150-161: the detector is stored and startWebcam runs
\* up to getUserMedia.
CreateResolved(i) ==
    /\ chain[i] = "create"
    /\ handLandmarkerRef' = i
    /\ created' = created \cup {i}
    /\ IF gumSupported
       THEN /\ SetChain(i, "gum")
            /\ UNCHANGED gestureStatus
       ELSE /\ SetChain(i, "cameraFailed")
            /\ gestureStatus' = StatusNotSupported
    /\ UNCHANGED <<appVars, modeRef, openFrames, closedFrames, handDetected,
                   videoMounted, srcObject, readyState, listeners, gumSupported,
                   closed, acquired, stopped, schedVars, historyVars, staleCycles, ranAfterTeardown, tornDownIn, teardownLog, classifierVars>>

\* Lines 159-167 and 184-186: the stream is attached and play() is called,
\* or the video element is gone.
GumResolved(i) ==
    /\ chain[i] = "gum"
    /\ acquired' = acquired \cup {i}
    /\ IF videoMounted
       THEN /\ srcObject' = i
            /\ readyState' = 0
            /\ SetChain(i, "play")
       ELSE /\ SetChain(i, "done")
            /\ UNCHANGED <<srcObject, readyState>>
    /\ UNCHANGED <<appVars, debounceVars, handLandmarkerRef, videoMounted,
                   listeners, gumSupported, created, closed, stopped, schedVars,
                   historyVars, staleCycles, ranAfterTeardown, tornDownIn, teardownLog, classifierVars>>

\* Lines 187-194.
WebcamErrorStatus(name) ==
    IF name = "NotAllowedError" THEN StatusAllowCamera ELSE StatusWebcamError

ErrorNames == {"NotAllowedError", "other"}

\* getUserMedia or play() rejected.
WebcamFailed(i) ==
    /\ chain[i] \in {"gum", "play"}
    /\ \E name \in ErrorNames : gestureStatus' = WebcamErrorStatus(name)
    /\ SetChain(i, "cameraFailed")
    /\ UNCHANGED <<appVars, modeRef, openFrames, closedFrames, handDetected,
                   deviceVars, schedVars, historyVars, staleCycles, ranAfterTeardown, tornDownIn, teardownLog, classifierVars>>

\* Line 171: the video element holds at least its current frame.
VideoLoadedNever(ready) == FALSE
VideoLoaded(ready) == ready >= HAVE_CURRENT_DATA

\* Lines 167-183: play() resolved.  Reading readyState of a video element
\* that is gone throws a TypeError into the catch block of line 187.
PlayResolved(i) ==
    /\ chain[i] = "play"
    /\ srcObject = i \/ ~videoMounted
    /\ SetChain(i, IF videoMounted THEN "done" ELSE "cameraFailed")
    /\ IF ~videoMounted
       THEN /\ gestureStatus' = WebcamErrorStatus("TypeError")
            /\ UNCHANGED <<listeners, schedVars>>
       ELSE /\ gestureStatus' = StatusReady
            /\ IF VideoLoaded(readyState)
               THEN /\ SetSched(PredictWebcamEnter(Sched,
                           Gate(videoMounted, handLandmarkerRef, readyState)))
                    /\ UNCHANGED <<listeners, timeouts>>
               ELSE /\ listeners' = listeners + 1
                    /\ UNCHANGED schedVars
    /\ UNCHANGED <<appVars, modeRef, openFrames, closedFrames, handDetected,
                   handLandmarkerRef, videoMounted, srcObject, readyState,
                   gumSupported, created, closed, acquired, stopped, historyVars,
                   staleCycles, ranAfterTeardown, tornDownIn, teardownLog, classifierVars>>

\* The video element has its first frame: readyState reaches
\* HAVE_CURRENT_DATA and "loadeddata" calls every listener once (lines 176-179).
LoadedData ==
    /\ srcObject # 0
    /\ readyState < HAVE_CURRENT_DATA
    /\ readyState' = HAVE_CURRENT_DATA
    /\ listeners' = 0
    /\ ranAfterTeardown' = (ranAfterTeardown \/ (~videoMounted /\ listeners > 0))
    /\ UNCHANGED <<tornDownIn, teardownLog, classifierVars>>
    /\ SetSched(PredictWebcamEnterTimes(listeners, Sched,
            Gate(videoMounted, handLandmarkerRef, HAVE_CURRENT_DATA)))
    /\ UNCHANGED <<appVars, debounceVars, handLandmarkerRef, videoMounted,
                   srcObject, gumSupported, created, closed, acquired, stopped,
                   timeouts, historyVars, chain, staleCycles>>

(***************************************************************************)
(* Teardown: the cleanup of lines 235-251.                                 *)
(***************************************************************************)
\* The objects the cleanup reads.
Refs == [idRef |-> animationFrameIdRef, landmarker |-> handLandmarkerRef,
         srcObject |-> srcObject, readyState |-> readyState]

\* Line 237: cancelAnimationFrame is called with an id that is not null.
GuardFrame(idRef) == idRef # "null"
\* Line 240: close() is called on a detector that is not null.
GuardLandmarkerAlways(landmarker) == TRUE
GuardLandmarker(landmarker) == landmarker # 0
\* Line 245: videoRef.current?.srcObject; attached says that videoRef.current
\* is not null.
GuardStreamUnchecked(attached, src) == TRUE
GuardStream(attached, src) == attached /\ src # 0

\* One run of the cleanup on the refs st: the refs it leaves, the detectors
\* it closes, the streams whose tracks it stops, whether it cancels a queued
\* callback, and whether it calls a method of null (a TypeError).
CleanupRunKeepRefs(attached, st) ==
    LET closing == GuardLandmarker(st.landmarker)
        stopping == GuardStream(attached, st.srcObject)
    IN [idRef |-> IF GuardFrame(st.idRef) /\ st.idRef = "pending" THEN "stale" ELSE st.idRef,
        landmarker |-> st.landmarker,
        srcObject |-> st.srcObject,
        readyState |-> st.readyState,
        closes |-> IF closing /\ st.landmarker # 0 THEN {st.landmarker} ELSE {},
        stops |-> IF stopping /\ attached /\ st.srcObject # 0 THEN {st.srcObject} ELSE {},
        cancels |-> GuardFrame(st.idRef) /\ st.idRef = "pending",
        error |-> (closing /\ st.landmarker = 0)
                  \/ (stopping /\ (~attached \/ st.srcObject = 0))]
CleanupRun(attached, st) ==
    LET closing == GuardLandmarker(st.landmarker)
        stopping == GuardStream(attached, st.srcObject)
    IN [idRef |-> IF GuardFrame(st.idRef) /\ st.idRef = "pending" THEN "stale" ELSE st.idRef,
        landmarker |-> IF closing THEN 0 ELSE st.landmarker,
        srcObject |-> IF stopping THEN 0 ELSE st.srcObject,
        readyState |-> IF stopping THEN 0 ELSE st.readyState,
        closes |-> IF closing /\ st.landmarker # 0 THEN {st.landmarker} ELSE {},
        stops |-> IF stopping /\ attached /\ st.srcObject # 0 THEN {st.srcObject} ELSE {},
        cancels |-> GuardFrame(st.idRef) /\ st.idRef = "pending",
        error |-> (closing /\ st.landmarker = 0)
                  \/ (stopping /\ (~attached \/ st.srcObject = 0))]

\* What the log keeps of a run; again: the run follows another run of the
\* cleanup with nothing in between.
LogEntry(run, again) ==
    [closes |-> run.closes, stops |-> run.stops, cancels |-> run.cancels,
     error |-> run.error, again |-> again]

\* The refs and the resources after the run of the cleanup.
ApplyCleanup(run) ==
    /\ animationFrameIdRef' = run.idRef
    /\ handLandmarkerRef' = run.landmarker
    /\ srcObject' = run.srcObject
    /\ readyState' = run.readyState
    /\ closed' = closed \cup run.closes
    /\ stopped' = stopped \cup run.stops

\* attached: videoRef.current is not null when the cleanup runs.
Cleanup(attached) ==
    LET run == CleanupRun(attached, Refs)
    IN /\ ApplyCleanup(run)
       /\ teardownLog' = Append(teardownLog, LogEntry(run, FALSE))

\* The effect runs again: cleanup, then setup() of lines 200-232 up to its
\* first await.  The dependency startWebcam never changes (App passes setMode
\* and a callback without dependencies), so the effect is run again only by
\* React's development double invocation, right after the mount.
EffectRerun ==
    /\ videoMounted
    /\ \E i \in SetupIds :
          /\ chain[i] = "idle"
          /\ \A j \in SetupIds : j < i => chain[j] = "fileset"
          /\ Cleanup(TRUE)
          /\ SetChain(i, IF handLandmarkerRef' = 0 THEN "fileset" ELSE "done")
    /\ UNCHANGED <<appVars, debounceVars, videoMounted, listeners, gumSupported,
                   created, acquired, rafOther, timeouts, inflight, historyVars,
                   staleCycles, ranAfterTeardown, tornDownIn, classifierVars>>

\* What the loop has pending: a queued animation frame (also one that polls
\* the gate), the 60 ms timer, a suspended detection.
LoopPhases ==
    (IF animationFrameIdRef = "pending" \/ rafOther > 0 THEN {"raf"} ELSE {})
    \cup (IF timeouts > 0 THEN {"timeout"} ELSE {})
    \cup (IF inflight > 0 THEN {"inflight"} ELSE {})

\* The component unmounts.  React versions differ in whether the refs of the
\* video and canvas elements are already null when the cleanup runs.
Unmount ==
    /\ videoMounted
    /\ videoMounted' = FALSE
    /\ \E attached \in BOOLEAN : Cleanup(attached)
    /\ tornDownIn' = LoopPhases
    /\ UNCHANGED <<appVars, debounceVars, listeners, gumSupported, created,
                   acquired, rafOther, timeouts, inflight, historyVars, chain,
                   staleCycles, ranAfterTeardown, classifierVars>>

\* The cleanup function is called twice in succession at unmount.
UnmountTwice ==
    /\ videoMounted
    /\ videoMounted' = FALSE
    /\ \E attached \in BOOLEAN :
          LET first == CleanupRun(attached, Refs)
              second == CleanupRun(attached,
                            [idRef |-> first.idRef, landmarker |-> first.landmarker,
                             srcObject |-> first.srcObject,
                             readyState |-> first.readyState])
          IN /\ ApplyCleanup([second EXCEPT !.closes = first.closes \cup second.closes,
                                            !.stops = first.stops \cup second.stops])
             /\ teardownLog' = teardownLog \o <<LogEntry(first, FALSE),
                                                LogEntry(second, TRUE)>>
    /\ tornDownIn' = LoopPhases
    /\ UNCHANGED <<appVars, debounceVars, listeners, gumSupported, created,
                   acquired, rafOther, timeouts, inflight, historyVars, chain,
                   staleCycles, ranAfterTeardown, classifierVars>>

(***************************************************************************)
(* The specification.                                                      *)
(***************************************************************************)
SetupStep ==
    \E i \in SetupIds :
        \/ FilesetResolved(i)
        \/ SetupFailed(i)
        \/ CreateResolved(i)
        \/ GumResolved(i)
        \/ WebcamFailed(i)
        \/ PlayResolved(i)

Next ==
    \/ SetupStep
    \/ LoadedData
    \/ EffectRerun
    \/ Unmount
    \/ AnimationFrame
    \/ TimeoutFire
    \/ DetectHand
    \/ DetectNoHand
    \/ DetectThrow
    \/ SyncModeRef

Spec == Init /\ [][Next]_vars

\* The program with an unmount that calls the cleanup twice in succession.
NextTeardownTwice ==
    \/ SetupStep
    \/ LoadedData
    \/ EffectRerun
    \/ UnmountTwice
    \/ AnimationFrame
    \/ TimeoutFire
    \/ DetectHand
    \/ DetectNoHand
    \/ DetectThrow
    \/ SyncModeRef

SpecTeardownTwice == Init /\ [][NextTeardownTwice]_vars

\* The program without teardown: the effect runs once and the component
\* stays mounted.  A video element that plays a live stream gets its first
\* frame, so "loadeddata" is not postponed for ever.
NextNoTeardown ==
    \/ SetupStep
    \/ LoadedData
    \/ AnimationFrame
    \/ TimeoutFire
    \/ DetectHand
    \/ DetectNoHand
    \/ DetectThrow
    \/ SyncModeRef

SpecNoTeardown == Init /\ [][NextNoTeardown]_vars /\ WF_vars(LoadedData)

(***************************************************************************)
(* The classifier on its own: any result of the detector, classified once. *)
(***************************************************************************)
InitClassify ==
    /\ InitProgram
    /\ frame \in Frames
    /\ signal = "none"

\* Lines 89, 127: the pointer published for a result.
PointerOf(landmarks) ==
    IF Len(landmarks) > 0 THEN HandPointer(landmarks[1]) ELSE NoHandPointer

ClassifyFrame ==
    /\ signal = "none"
    /\ signal' = RawSignal(frame)
    /\ handPosition' = PointerOf(frame)
    /\ UNCHANGED <<mode, debounceVars, deviceVars, schedVars, historyVars,
                   chain, staleCycles, ranAfterTeardown, tornDownIn,
                   teardownLog, frame>>

NextClassify == ClassifyFrame

SpecClassify == InitClassify /\ [][NextClassify]_vars

TypeOK ==
    /\ mode \in TreeMode
    /\ modeRef \in TreeMode
    /\ openFrames \in 0..MaxFrames
    /\ closedFrames \in 0..MaxFrames
    /\ handLandmarkerRef \in 0..NumSetups
    /\ srcObject \in 0..NumSetups
    /\ animationFrameIdRef \in {"null", "pending", "stale"}
    /\ chain \in [SetupIds -> ChainPcs]
    /\ rafOther \in 0..NumSetups
    /\ timeouts \in 0..NumSetups
    /\ inflight \in 0..NumSetups
    /\ staleCycles \in 0..MaxStaleCycles
    /\ ranAfterTeardown \in BOOLEAN
    /\ tornDownIn \subseteq {"raf", "timeout", "inflight"}
    /\ Len(teardownLog) <= NumSetups + 1
    /\ lastEvent \in TreeMode \cup {"none"}
    /\ frame \in Frames
    /\ signal \in {"none", "OPEN", "CLOSED", "UNDETERMINED"}

(***************************************************************************)
(* Properties of the debounce rule and of the loop.                        *)
(***************************************************************************)
\* A step in which a detection pass completes (only line 141 adds a timer).
CycleCompletes == timeouts' = timeouts + 1

\* C1: a run of consecutive OPEN signals that starts in mode FORMED (the
\* OPEN counter is 0 there) has emitted no mode change up to its 5th cycle
\* and exactly one from its 6th cycle on; the 6th cycle emits the change to
\* CHAOS and leaves openFrames at 0.
C1_OpenRunEmitsOnceAtSixth ==
    (runKind = "OPEN" /\ runStartMode = FORMED) =>
        /\ runLen <= CONFIDENCE_THRESHOLD => runEvents = 0
        /\ runLen > CONFIDENCE_THRESHOLD => runEvents = 1
        /\ (runLen = CONFIDENCE_THRESHOLD + 1 /\ lastOutcome = "OPEN") =>
              (emitted = CHAOS /\ openFrames = 0 /\ mode = CHAOS)

\* Twelve consecutive OPEN cycles from FORMED, one mode change.
C1_Witness ==
    /\ runKind = "OPEN"
    /\ runStartMode = FORMED
    /\ runLen = 2 * (CONFIDENCE_THRESHOLD + 1)
    /\ runEvents = 1
    /\ mode = CHAOS

\* C2: a run of consecutive CLOSED signals that starts in mode CHAOS has
\* emitted no mode change up to its 5th cycle and exactly one from its 6th
\* cycle on; the 6th cycle emits the change to FORMED and leaves
\* closedFrames at 0.
C2_ClosedRunEmitsOnceAtSixth ==
    (runKind = "CLOSED" /\ runStartMode = CHAOS) =>
        /\ runLen <= CONFIDENCE_THRESHOLD => runEvents = 0
        /\ runLen > CONFIDENCE_THRESHOLD => runEvents = 1
        /\ (runLen = CONFIDENCE_THRESHOLD + 1 /\ lastOutcome = "CLOSED") =>
              (emitted = FORMED /\ closedFrames = 0 /\ mode = FORMED)

\* Twelve consecutive CLOSED cycles from CHAOS, one mode change.
C2_Witness ==
    /\ runKind = "CLOSED"
    /\ runStartMode = CHAOS
    /\ runLen = 2 * (CONFIDENCE_THRESHOLD + 1)
    /\ runEvents = 1
    /\ mode = FORMED

\* C3: a cycle emits a mode change only when it ends a run of at least 6
\* consecutive identical decisive signals, OPEN for CHAOS and CLOSED for
\* FORMED, that no opposing signal and no cycle without a hand interrupted.
C3_EventOnlyAfterFullRun ==
    /\ emitted = CHAOS =>
          (lastOutcome = "OPEN" /\ runKind = "OPEN" /\ runLen > CONFIDENCE_THRESHOLD)
    /\ emitted = FORMED =>
          (lastOutcome = "CLOSED" /\ runKind = "CLOSED" /\ runLen > CONFIDENCE_THRESHOLD)

\* A change back to FORMED was emitted at the end of a run of CLOSED signals.
C3_Witness == emitted = FORMED /\ runKind = "CLOSED" /\ runLen = CONFIDENCE_THRESHOLD + 1

\* C4: at most one of openFrames and closedFrames is non-zero, and neither
\* is negative.
C4_CountersExclusive ==
    /\ openFrames >= 0
    /\ closedFrames >= 0
    /\ openFrames = 0 \/ closedFrames = 0

\* An OPEN cycle that follows a cycle of another outcome while in CHAOS.
C4_Witness == mode = CHAOS /\ openFrames > 0 /\ closedFrames = 0 /\ runLen = 1

\* C5: a cycle emits a mode change only when App's mode is the opposite of
\* the target and the counter of the target's signal, counting this cycle,
\* is strictly greater than the threshold.
C5_EventNeedsOppositeModeAndExcess ==
    [][(CycleCompletes /\ emitted' # "none") =>
          /\ mode # emitted'
          /\ mode' = emitted'
          /\ emitted' = CHAOS => openFrames + 1 > CONFIDENCE_THRESHOLD
          /\ emitted' = FORMED => closedFrames + 1 > CONFIDENCE_THRESHOLD]_vars

\* The change to CHAOS has just been emitted from FORMED: App's mode is
\* CHAOS and the effect has not yet copied it into modeRef.
C5_Witness == emitted = CHAOS /\ mode = CHAOS /\ modeRef = FORMED /\ openFrames = 0

\* C6 as claimed: a cycle without a hand counts as CLOSED in FORMED and as
\* OPEN in CHAOS and emits nothing.
C6_NoHandCountsAsTable ==
    [][(CycleCompletes /\ lastOutcome' = "NOHAND") =>
          /\ mode = FORMED => (closedFrames' = closedFrames + 1 /\ openFrames' = 0)
          /\ mode = CHAOS => (openFrames' = openFrames + 1 /\ closedFrames' = 0)
          /\ emitted' = "none"]_vars

\* C6 amended: a cycle without a hand sets both counters to 0 in either
\* mode, emits no mode change and leaves the mode as it is.
C6_NoHandResetsBoth ==
    [][(CycleCompletes /\ lastOutcome' = "NOHAND") =>
          /\ openFrames' = 0
          /\ closedFrames' = 0
          /\ emitted' = "none"
          /\ mode' = mode]_vars

\* A cycle without a hand completed in mode CHAOS.
C6_Witness ==
    /\ lastOutcome = "NOHAND"
    /\ mode = CHAOS
    /\ openFrames = 0
    /\ closedFrames = 0

\* C7 as claimed: openFrames is 0 whenever the mode is CHAOS and
\* closedFrames is 0 whenever the mode is FORMED.
C7_CounterZeroInTargetMode ==
    /\ mode = CHAOS => openFrames = 0
    /\ mode = FORMED => closedFrames = 0

\* C7 amended: after a cycle, openFrames is 0 if the cycle saw CLOSED or no
\* hand or emitted the change to CHAOS, and closedFrames is 0 if the cycle
\* saw OPEN or no hand or emitted the change to FORMED; a cycle whose signal
\* matches a counter and emits nothing adds one to it, also while the mode
\* that counter would trigger is active.
C7_CounterResetRule ==
    [][CycleCompletes =>
          /\ (lastOutcome' \in {"CLOSED", "NOHAND"} \/ emitted' = CHAOS) => openFrames' = 0
          /\ (lastOutcome' \in {"OPEN", "NOHAND"} \/ emitted' = FORMED) => closedFrames' = 0
          /\ (lastOutcome' = "OPEN" /\ emitted' = "none") => openFrames' = openFrames + 1
          /\ (lastOutcome' = "CLOSED" /\ emitted' = "none") =>
                closedFrames' = closedFrames + 1]_vars

\* closedFrames has grown past the threshold while FORMED is active.
C7_Witness ==
    /\ mode = FORMED
    /\ modeRef = FORMED
    /\ closedFrames > CONFIDENCE_THRESHOLD
    /\ lastOutcome = "CLOSED"

\* C8 as claimed: a cycle whose detection fails publishes the pointer
\* (0.5, 0.5, false) once and schedules the next cycle.
C8_FailedCyclePublishesNoHand ==
    [][(CycleCompletes /\ lastOutcome' = "FAIL") =>
          /\ published' = 1
          /\ handPosition' = NoHandPointer
          /\ timeouts' = timeouts + 1]_vars

\* C9: a cycle whose detection fails leaves the mode and both counters as
\* they were and emits nothing, so that an OPEN run keeps its count across
\* failed cycles: as long as the run has emitted nothing, openFrames is the
\* number of OPEN cycles of the run.
C9_FailedCycleKeepsCounters ==
    /\ [][(CycleCompletes /\ lastOutcome' = "FAIL") =>
             /\ mode' = mode
             /\ emitted' = "none"
             /\ openFrames' = openFrames
             /\ closedFrames' = closedFrames]_vars
    /\ []((runKind = "OPEN" /\ runEvents = 0) => openFrames = runLen)

\* A failed cycle after five OPEN cycles: the counter still holds 5.
C9_Witness ==
    /\ lastOutcome = "FAIL"
    /\ runKind = "OPEN"
    /\ runLen = CONFIDENCE_THRESHOLD
    /\ openFrames = CONFIDENCE_THRESHOLD

\* C10 as claimed: when the unmount cleanup runs while the loop has an
\* animation frame queued or waits in the 60 ms timeout, predictWebcam is
\* never called again.
C10_NoCycleAfterTeardown ==
    (tornDownIn # {} /\ tornDownIn \subseteq {"raf", "timeout"}) => ~ranAfterTeardown

(***************************************************************************)
(* Properties of teardown and of the scheduler.                            *)
(***************************************************************************)
\* Queued animation-frame callbacks, the one animationFrameIdRef names included.
RafPending == rafOther + IF animationFrameIdRef = "pending" THEN 1 ELSE 0

\* C11 as claimed: a detection that was suspended when the unmount cleanup
\* ran is discarded when it completes: it emits no mode change, publishes no
\* pointer, changes no run counter and sets no status.  (With the video
\* element gone the gate of lines 49-52 starts no new detection, so every
\* pass that completes after the cleanup was suspended when it ran.)
C11_StaleResultDiscarded ==
    [][(~videoMounted /\ CycleCompletes) =>
          /\ emitted' = "none"
          /\ published' = 0
          /\ UNCHANGED <<mode, handPosition, openFrames, closedFrames,
                         gestureStatus, handDetected>>]_vars

\* C12 as claimed: at most one detection is in flight, and at most one cycle
\* is in flight or pending as a timer or a queued animation frame.
C12_OneCycleAtATime ==
    /\ inflight <= 1
    /\ inflight + timeouts + RafPending <= 1

\* C13: when the cleanup runs twice in succession, neither run calls a
\* method of null, the second run closes no detector, stops no track and
\* cancels no callback, and no detector or stream is released by two runs.
C13_TeardownIdempotent ==
    \A k \in 1..Len(teardownLog) :
        /\ ~teardownLog[k].error
        /\ teardownLog[k].again =>
              /\ teardownLog[k].closes = {}
              /\ teardownLog[k].stops = {}
              /\ ~teardownLog[k].cancels
        /\ \A j \in 1..(k - 1) :
              /\ teardownLog[j].closes \cap teardownLog[k].closes = {}
              /\ teardownLog[j].stops \cap teardownLog[k].stops = {}

\* The cleanup ran twice in succession and its first run closed a detector,
\* stopped a stream and cancelled a queued callback.
C13_Witness ==
    \E k \in 2..Len(teardownLog) :
        /\ teardownLog[k].again
        /\ teardownLog[k - 1].closes # {}
        /\ teardownLog[k - 1].stops # {}
        /\ teardownLog[k - 1].cancels

\* A step in which the cleanup runs (once or twice).
TeardownStep == Len(teardownLog') > Len(teardownLog)

\* C14: a run of the cleanup in any state of the setup calls no method of
\* null, closes only a detector that exists and is not closed, stops only a
\* stream that exists and is not stopped (none when no detector was created,
\* none when no stream was acquired) and cancels nothing when no animation
\* frame was ever requested.
C14_PartialTeardownSafe ==
    [][TeardownStep =>
          LET run == teardownLog'[Len(teardownLog')]
          IN /\ ~run.error
             /\ run.closes \subseteq (created \ closed)
             /\ run.stops \subseteq (acquired \ stopped)
             /\ animationFrameIdRef = "null" => ~run.cancels]_vars

\* The cleanup ran when a detector existed, no stream was acquired and no
\* animation frame was ever requested.
C14_Witness ==
    /\ ~videoMounted
    /\ Len(teardownLog) = 1
    /\ teardownLog[1].closes # {}
    /\ acquired = {}
    /\ animationFrameIdRef = "null"

\* Every call of setup() and of its startWebcam() has returned.
SetupSettled == \A i \in SetupIds : chain[i] \in {"idle"} \cup Returned

\* C15 as claimed: once the component is unmounted and every setup has
\* settled, every detector that was created is closed and every stream that
\* was acquired has its tracks stopped.
C15_AllReleasedAfterTeardown ==
    (~videoMounted /\ SetupSettled) =>
        /\ created \subseteq closed
        /\ acquired \subseteq stopped

\* The prerequisites of a detection hold after the step: the video element
\* is there with a stream and at least the current frame, the detector is
\* there and not closed.
PrerequisitesAfter ==
    /\ videoMounted'
    /\ srcObject' # 0
    /\ readyState' >= HAVE_CURRENT_DATA
    /\ handLandmarkerRef' # 0
    /\ handLandmarkerRef' \notin closed'

\* A step in which predictWebcam returns at line 51 or 58: no detection is
\* started, no pass completes, and a callback is queued under animationFrameIdRef.
PollStep ==
    /\ schedVars' # schedVars
    /\ inflight' = inflight
    /\ timeouts' = timeouts
    /\ animationFrameIdRef' = "pending"

\* C16: detectForVideo is called only when the prerequisites hold; a cycle
\* that finds them missing starts no detection, publishes no pointer and no
\* mode, leaves both counters as they are and queues the next animation frame.
C16_DetectionOnlyWhenReady ==
    [][/\ inflight' > inflight => PrerequisitesAfter
       /\ PollStep =>
             /\ ~Gate(videoMounted', handLandmarkerRef', readyState')
             /\ RafPending' >= RafPending
             /\ UNCHANGED <<mode, handPosition, openFrames, closedFrames,
                            handDetected, historyVars>>]_vars

\* startWebcam called predictWebcam with a frame available, but the catch
\* block of another setup() had set the detector ref to null (line 225): the
\* call only queued an animation frame.
C16_Witness ==
    /\ videoMounted
    /\ readyState >= HAVE_CURRENT_DATA
    /\ handLandmarkerRef = 0
    /\ animationFrameIdRef = "pending"
    /\ inflight = 0
    /\ timeouts = 0
    /\ lastOutcome = "none"

\* C17 as claimed: a detection pass that completes arms the 60 ms timer
\* once and requests no animation frame itself, an animation frame for a
\* next cycle is requested only when a timer fires or a cycle polls, and at
\* no time after a completed pass is more than one next cycle pending as a
\* timer or a queued frame.
C17_OneDelayedSuccessor ==
    /\ [][/\ CycleCompletes =>
                (inflight' = inflight - 1 /\ RafPending' = RafPending)
          /\ timeouts' < timeouts =>
                (timeouts' = timeouts - 1 /\ RafPending' = RafPending + 1)]_vars
    /\ [](lastOutcome # "none" => timeouts + RafPending <= 1)

(***************************************************************************)
(* Properties of the failure paths of the setup.                           *)
(***************************************************************************)
\* A call of setup() has returned through its catch block.
CreateFailed == \E i \in SetupIds : chain[i] = "createFailed"
\* A call of startWebcam() has found no getUserMedia or has caught an error.
CameraFailed == \E i \in SetupIds : chain[i] = "cameraFailed"

\* No loop exists: no detection is suspended, no timer and no frame pending.
NoLoop == inflight = 0 /\ timeouts = 0 /\ RafPending = 0

\* The statuses startWebcam sets when it cannot get the camera going.
CameraFailureStatuses == {StatusNotSupported, StatusAllowCamera, StatusWebcamError}

\* C18 as claimed: when the creation of the detector fails, the step that
\* catches the failure sets the MediaPipe error status and leaves the
\* detector ref null; from then on the ref stays null, no camera stream is
\* acquired, no loop exists, and no cycle emits a mode change or publishes a
\* pointer with detected = true.
C18_CreationFailureIsInert ==
    /\ [][(CreateFailed' /\ ~CreateFailed) =>
             (gestureStatus' = StatusMediaPipeError /\ handLandmarkerRef' = 0)]_vars
    /\ [](CreateFailed => (handLandmarkerRef = 0 /\ acquired = {} /\ NoLoop))
    /\ [][(CreateFailed /\ CycleCompletes) =>
             (emitted' = "none" /\ ~handPosition'.detected)]_vars

\* C19 as claimed: when startWebcam cannot get the camera going, the step
\* that notices it sets a status that names the failure, with a message of
\* its own for a denied permission; from then on no loop exists and no
\* cycle emits a mode change or publishes a pointer with detected = true.
C19_CameraFailureIsInert ==
    /\ WebcamErrorStatus("NotAllowedError") = StatusAllowCamera
    /\ WebcamErrorStatus("NotAllowedError") # WebcamErrorStatus("other")
    /\ [][(CameraFailed' /\ ~CameraFailed) =>
             gestureStatus' \in CameraFailureStatuses]_vars
    /\ [](CameraFailed => NoLoop)
    /\ [][(CameraFailed /\ CycleCompletes) =>
             (emitted' = "none" /\ ~handPosition'.detected)]_vars

(***************************************************************************)
(* Properties of the classifier.                                           *)
(***************************************************************************)
\* C20: the raw signal of a classified result is UNDETERMINED exactly when
\* the result holds no hand; with a hand it is OPEN exactly when landmark 8
\* lies strictly above landmark 6 and landmark 12 strictly above landmark 10
\* (smaller y), and CLOSED otherwise, and it is the signal of the hand that
\* has the same four y values and 0 in every other coordinate.
C20_SignalFromTwoFingers ==
    signal # "none" =>
        /\ signal = "UNDETERMINED" <=> frame = <<>>
        /\ frame # <<>> =>
              LET hand == frame[1]
                  y8 == hand[8 + 1].y
                  y6 == hand[6 + 1].y
                  y12 == hand[12 + 1].y
                  y10 == hand[10 + 1].y
              IN /\ signal \in {"OPEN", "CLOSED"}
                 /\ signal = "OPEN" <=> (y8 < y6 /\ y12 < y10)
                 /\ signal = RawSignal(<<MkHandXY(y8, y6, y12, y10, 0, 0, 0)>>)

\* A hand whose index tip is level with its PIP joint while the middle
\* finger is open, with other coordinates that are not 0, classified CLOSED.
C20_Witness ==
    /\ signal = "CLOSED"
    /\ frame # <<>>
    /\ frame[1][8 + 1].y = frame[1][6 + 1].y
    /\ frame[1][12 + 1].y < frame[1][10 + 1].y
    /\ frame[1][1].x > 0
    /\ frame[1][1].y > 0
    /\ frame[1][8 + 1].x > 0

(***************************************************************************)
(* Properties of the pointer and of the mode.                              *)
(***************************************************************************)
\* C21: after a cycle whose result holds no hand, the pointer App holds is
\* exactly (1/2, 1/2, false), and it stays so until the next cycle
\* completes, whatever the pointer was before.
C21_NoHandPointerIsCentre ==
    /\ [][(CycleCompletes /\ lastOutcome' = "NOHAND") =>
             (published' = 1
              /\ handPosition' = [x |-> <<1, 2>>, y |-> <<1, 2>>, detected |-> FALSE])]_vars
    /\ [](lastOutcome = "NOHAND" =>
             (handPosition.x = <<1, 2>> /\ handPosition.y = <<1, 2>>
              /\ ~handPosition.detected))

\* A cycle without a hand completed after cycles with a hand had switched
\* the mode to CHAOS (and had published detected = true).
C21_Witness ==
    /\ lastOutcome = "NOHAND"
    /\ mode = CHAOS
    /\ modeRef = CHAOS
    /\ ~handPosition.detected

\* Number of landmarks of hand whose x (y) is v.
CountX(hand, v) == Cardinality({k \in 1..Len(hand) : hand[k].x = v})
CountY(hand, v) == Cardinality({k \in 1..Len(hand) : hand[k].y = v})

RECURSIVE WeightedSum(_, _, _)
WeightedSum(hand, v, xs) ==
    IF v < 0 THEN 0
    ELSE v * (IF xs THEN CountX(hand, v) ELSE CountY(hand, v))
         + WeightedSum(hand, v - 1, xs)

\* p / q = total / (n * MaxCoord), with p / q in lowest terms.
IsMean(frac, total, n) ==
    /\ frac[2] > 0
    /\ frac[1] * n * MaxCoord = frac[2] * total
    /\ GCD(frac[1], frac[2]) = 1

\* hand with the landmarks at i and j exchanged, and hand in reverse order.
Swapped(hand, i, j) ==
    [k \in 1..Len(hand) |-> IF k = i THEN hand[j] ELSE IF k = j THEN hand[i] ELSE hand[k]]
Reversed(hand) == [k \in 1..Len(hand) |-> hand[Len(hand) + 1 - k]]

\* C22: the pointer published for a result with a hand is (mean x, mean y,
\* true) over all landmarks of the first hand, and the pointer of that hand
\* with any two landmarks exchanged, or in reverse order, is the same.
C22_PointerIsMean ==
    (signal # "none" /\ frame # <<>>) =>
        LET hand == frame[1]
            n == Len(hand)
        IN /\ handPosition.detected
           /\ IsMean(handPosition.x, WeightedSum(hand, MaxCoord, TRUE), n)
           /\ IsMean(handPosition.y, WeightedSum(hand, MaxCoord, FALSE), n)
           /\ \A i \in 1..n : \A j \in (i + 1)..n :
                 HandPointer(Swapped(hand, i, j)) = handPosition
           /\ HandPointer(Reversed(hand)) = handPosition

\* A hand whose landmarks differ in x and in y, with a mean that is neither
\* 0 nor 1 in either coordinate.
C22_Witness ==
    /\ signal # "none"
    /\ frame # <<>>
    /\ handPosition.detected
    /\ handPosition.x \notin {<<0, 1>>, <<1, 1>>}
    /\ handPosition.y \notin {<<0, 1>>, <<1, 1>>}
    /\ frame[1][8 + 1].y # frame[1][12 + 1].y

\* C23: the mode is FORMED at the start, and a step changes it only when a
\* cycle with a hand completes and emits, to the mode it emits; cycles that
\* emit nothing, cycles without a hand, failed cycles and the steps of
\* setup, camera start and teardown leave it as it is.
C23_ModeChangesOnlyByEvent ==
    /\ mode = FORMED
    /\ [][/\ mode' # mode =>
                /\ CycleCompletes
                /\ lastOutcome' \in {"OPEN", "CLOSED"}
                /\ emitted' = mode'
          /\ (CycleCompletes /\ emitted' = "none") => mode' = mode
          /\ ~CycleCompletes => mode' = mode]_vars

\* The mode has gone to CHAOS and come back to FORMED, and the component
\* is unmounted.
C23_Witness ==
    /\ mode = FORMED
    /\ runStartMode = CHAOS
    /\ runKind = "CLOSED"
    /\ runEvents = 1
    /\ ~videoMounted

\* C24: a cycle never emits the mode change that the latest emitted mode
\* change already went to, also when it runs while modeRef still holds the
\* mode from before that change.
C24_EventsAlternate ==
    [][(CycleCompletes /\ emitted' # "none") => emitted' # lastEvent]_vars

\* An OPEN cycle completed after the change to CHAOS while modeRef still
\* held FORMED; it emitted nothing.
C24_Witness ==
    /\ lastEvent = CHAOS
    /\ mode = CHAOS
    /\ modeRef = FORMED
    /\ staleCycles > 0
    /\ lastOutcome = "OPEN"
    /\ emitted = "none"
    /\ openFrames = 1

\* C25: a cycle that emits leaves both counters at 0, the cycle that
\* completes next emits nothing, and a run of identical signals that has
\* emitted k mode changes is at least k * (THRESHOLD + 1) cycles long: an
\* event is the 6th or a later cycle of its run since the event before it.
C25_EventsSixCyclesApart ==
    /\ [][(CycleCompletes /\ emitted' # "none") =>
             (openFrames' = 0 /\ closedFrames' = 0)]_vars
    /\ [][(CycleCompletes /\ emitted # "none") => emitted' = "none"]_vars
    /\ [](runEvents * (CONFIDENCE_THRESHOLD + 1) <= runLen)

\* The change back to FORMED was emitted by the 6th CLOSED cycle after the
\* change to CHAOS.
C25_Witness ==
    /\ lastEvent = FORMED
    /\ emitted = FORMED
    /\ lastOutcome = "CLOSED"
    /\ runStartMode = CHAOS
    /\ runLen = CONFIDENCE_THRESHOLD + 1
    /\ runEvents = 1
    /\ openFrames = 0
    /\ closedFrames = 0

\* C26 as claimed: at most one detector is created and at most one camera
\* stream is acquired, also when the effect runs again while the first
\* creation is pending.
C26_OneDetectorOneStream ==
    /\ Cardinality(created) <= 1
    /\ Cardinality(acquired) <= 1

\* C28 as claimed: after a completed cycle with a hand the status is not
\* the message for a missing hand, and the cycle that emits a mode change
\* sets the status that names the new mode.
C28_StatusReflectsLatestCycle ==
    /\ [](lastOutcome \in {"OPEN", "CLOSED"} => gestureStatus # StatusNoHand)
    /\ [][(CycleCompletes /\ emitted' # "none") =>
             gestureStatus' = (IF emitted' = CHAOS THEN StatusChaos ELSE StatusFormed)]_vars

\* C27: without teardown, before startWebcam has returned from a
\* successful play() there is no loop and no listener; once it has, there
\* is exactly one of a waiting loadeddata listener and a running loop, and
\* the loop eventually runs.
C27_LoopStartsExactlyOnce ==
    /\ [](chain[1] # "done" => (NoLoop /\ listeners = 0))
    /\ [](chain[1] = "done" =>
             listeners + inflight + timeouts + RafPending = 1)
    /\ (chain[1] = "done") ~> (~NoLoop /\ listeners = 0)

\* The loop was started and its first detection is suspended.
C27_Witness ==
    /\ chain[1] = "done"
    /\ listeners = 0
    /\ inflight = 1
    /\ lastOutcome = "none"
    /\ readyState >= HAVE_CURRENT_DATA
    /\ teardownLog = <<>>

=============================================================================
